---------------------------- MODULE Spec2Model ----------------------------
(***************************************************************************)
(* Model of IMMOBILIER/dataset.py: the field extractors (prix, ville,      *)
(* type, surface, nbrpieces, nbrchambres, nbrsdb, dpe), the characteristics *)
(* block locator, the extraction pipeline informations_fields, the         *)
(* transport fetch getsoup and the crawl loop scrape_idf_sales_to_csv.     *)
(*                                                                         *)
(* Texts are sequences of tokens.  A token is one character ("0".."9",     *)
(* " ", NBSP, EUR, ",", a single letter) or an opaque word ("Maison",      *)
(* "Classe", AVENDRE for the phrase "à vendre", ...).  A document is a     *)
(* record of its text nodes in document order (nodes), its labelled        *)
(* values (labels) and the ancestor chains of its header phrases (heads).  *)
(***************************************************************************)
EXTENDS Integers, Sequences, FiniteSets, TLC

VARIABLES
    \* ---- scrape_idf_sales_to_csv (lines 344-419)
    pc,            \* position of the program
    seen_ads,      \* Set[str] seen_ads
    total_ads, valid_ads, skipped_ads,
    sink,          \* data rows written by writer.writerow, the header excluded
    flushed,       \* number of data rows known to be on disk (f.flush / close)
    start_idx,     \* index in START_URLS_IDF of the current section
    page_url,      \* cursor of the section: a URL or None
    pages_seen,
    listing_soup,  \* the listing page being processed
    ad_queue,      \* what is left of sorted(ad_urls)
    ad_url,        \* the ad being processed
    row,           \* what line 396 gave for it: the row, or the exception raised
    report,        \* the [END] line: None or <<total, valid, skipped>>
    raised,        \* the exception that left the program, or None
    \* ---- the running call of getsoup (lines 46-63)
    g_url, g_retries, g_i, g_last_exc, g_ret,
    \* ---- history of the run (not read by the program)
    h_gets,        \* outcomes of the HTTP attempts of the running getsoup call
    h_sleeps,      \* time.sleep(sleep_retry) calls of the running getsoup call
    h_fetches,     \* the ad URLs passed to getsoup(ad_url), in order
    h_pages,       \* getsoup(page_url) calls of the current section
    h_last,        \* what the last step did
    \* ---- the single-call harness of __main__ (lines 429-446)
    arg, ret

vars == <<pc, seen_ads, total_ads, valid_ads, skipped_ads, sink, flushed,
          start_idx, page_url, pages_seen, listing_soup, ad_queue, ad_url,
          row, report, raised, g_url, g_retries, g_i, g_last_exc, g_ret,
          h_gets, h_sleeps, h_fetches, h_pages, h_last, arg, ret>>

None == "None"

---------------------------------------------------------------------------
(* Bounds of the model *)

\* longest generated text node of the prix harness
MaxTextLen == 6
\* deepest ancestor chain of a header phrase
MaxDepth == 8
\* largest retries argument of the getsoup harness
MaxRetries == 3
\* page ceiling of the modelled run (the parameter max_pages_safety)
max_pages_safety == 2
\* progress interval of the modelled run (the parameter print_every)
print_every == 2

(* Program constants *)

\* default of the parameter retries of getsoup
DefaultRetries == 2
\* the price floor of prix
PrixMin == 10000
\* range(7) of caracteristiques
MaxLevels == 7
\* score >= 3 of caracteristiques
ScoreMin == 3
\* len(candidates) >= 10 of ville
MaxCandidates == 10
\* txt.count(",") < 3 of ville
MinCommas == 3

---------------------------------------------------------------------------
(* Tokens and the regular-expression classes the code uses *)

NBSP == "nbsp"
EUR == "EUR"
AVENDRE == "a_vendre"
FRANCE == "France"

Digits == {"0", "1", "2", "3", "4", "5", "6", "7", "8", "9"}

DigitVal(c) ==
    CASE c = "0" -> 0 [] c = "1" -> 1 [] c = "2" -> 2 [] c = "3" -> 3
      [] c = "4" -> 4 [] c = "5" -> 5 [] c = "6" -> 6 [] c = "7" -> 7
      [] c = "8" -> 8 [] c = "9" -> 9

\* \d
IsDigit(c) == c \in Digits
\* \s (of a str pattern: the non-breaking space is white space too)
IsSpace(c) == c \in {" ", NBSP}
\* [\d\s ]
IsAmountChar(c) == IsDigit(c) \/ IsSpace(c)
\* \w : everything but white space, the euro sign and punctuation
IsWordTok(c) == ~IsSpace(c) /\ c \notin {EUR, ",", "-", ":", "{", "}"}

RECURSIVE SelectToks(_, _)
\* the tokens of s that are in the set keep, in order
SelectToks(s, keep) ==
    IF s = <<>> THEN <<>>
    ELSE IF Head(s) \in keep THEN <<Head(s)>> \o SelectToks(Tail(s), keep)
         ELSE SelectToks(Tail(s), keep)

RECURSIVE ToInt(_)
\* int(digits), digits a non-empty sequence of digit characters
ToInt(ds) ==
    IF ds = <<>> THEN 0
    ELSE 10 * ToInt(SubSeq(ds, 1, Len(ds) - 1)) + DigitVal(ds[Len(ds)])

RECURSIVE Strip(_)
\* str.strip()
Strip(s) ==
    IF s = <<>> THEN s
    ELSE IF IsSpace(Head(s)) THEN Strip(Tail(s))
    ELSE IF IsSpace(s[Len(s)]) THEN Strip(SubSeq(s, 1, Len(s) - 1))
    ELSE s

RECURSIVE Collapse(_)
\* " ".join(s.split()) on a text without leading white space
Collapse(s) ==
    IF s = <<>> THEN <<>>
    ELSE IF IsSpace(Head(s))
         THEN IF Tail(s) = <<>> \/ IsSpace(Head(Tail(s)))
              THEN Collapse(Tail(s))
              ELSE <<" ">> \o Collapse(Tail(s))
         ELSE <<Head(s)>> \o Collapse(Tail(s))

\* _clean
Clean(s) == Strip(Collapse(Strip(s)))

\* re.sub(r"[^\d]", "", s)
DigitsOf(s) == SelectToks(s, Digits)

\* _is_visible_text_node
IsVisible(node) == node.vis

\* re.compile(r"\bà vendre\b").search(txt)
HasAVendre(txt) ==
    \E i \in 1..Len(txt) :
        /\ txt[i] = AVENDRE
        /\ (i = 1 \/ ~IsWordTok(txt[i - 1]))
        /\ (i = Len(txt) \/ ~IsWordTok(txt[i + 1]))

\* the end of the longest run of [\d\s ] that starts at i (i - 1: no run)
RunEnd(txt, i) ==
    LET ends == {j \in (i - 1)..Len(txt) :
                    \A k \in i..j : IsAmountChar(txt[k])}
    IN  CHOOSE j \in ends : \A k \in ends : k <= j

\* the match of euro_pattern that starts at i, as <<i, j>>, or <<>>
EuroMatchAt(txt, i) ==
    IF txt[i] = EUR
    THEN \* €\s*[\d\s ]+
         IF RunEnd(txt, i + 1) >= i + 1 THEN <<i, RunEnd(txt, i + 1)>> ELSE <<>>
    ELSE \* [\d\s ]+€
         IF /\ RunEnd(txt, i) >= i
            /\ RunEnd(txt, i) < Len(txt)
            /\ txt[RunEnd(txt, i) + 1] = EUR
         THEN <<i, RunEnd(txt, i) + 1>>
         ELSE <<>>

\* euro_pattern.search(txt): the leftmost match, or <<>>
EuroSearch(txt) ==
    LET at == {i \in 1..Len(txt) : EuroMatchAt(txt, i) # <<>>}
    IN  IF at = {} THEN <<>>
        ELSE EuroMatchAt(txt, CHOOSE i \in at : \A k \in at : i <= k)

\* the text euro_pattern matched in txt
MatchedAmount(txt) == SubSeq(txt, EuroSearch(txt)[1], EuroSearch(txt)[2])

---------------------------------------------------------------------------
(* Results of the extractors: a value or a raised exception *)

Ok(v) == [ok |-> TRUE, val |-> v]
Raise(exc, why) == [ok |-> FALSE, exc |-> exc, why |-> why]
NonValide(why) == Raise("NonValide", why)

\* soup.find(string=re.compile(r"\bà vendre\b")): index of the node, 0 if none
Marker(soup) ==
    LET at == {i \in 1..Len(soup.nodes) : HasAVendre(soup.nodes[i].txt)}
    IN  IF at = {} THEN 0 ELSE CHOOSE i \in at : \A k \in at : i <= k

\* the first node among idx that matches euro_pattern and is visible, or 0
FirstPriceNode(soup, idx) ==
    LET at == {i \in idx : /\ EuroSearch(soup.nodes[i].txt) # <<>>
                           /\ IsVisible(soup.nodes[i])}
    IN  IF at = {} THEN 0 ELSE CHOOSE i \in at : \A k \in at : i <= k

\* find_price_text of prix
find_price_text(soup) ==
    LET m == Marker(soup)
        after == IF m = 0 THEN 0
                 ELSE FirstPriceNode(soup, (m + 1)..Len(soup.nodes))
    IN  IF after # 0 THEN after
        ELSE FirstPriceNode(soup, 1..Len(soup.nodes))

\* the price floor test of prix
PrixTooLow(digits) == ToInt(digits) < PrixMin

\* prix
prix(soup) ==
    LET price_text == find_price_text(soup)
    IN  IF price_text = 0 THEN NonValide("Prix introuvable")
        ELSE LET raw == Strip(soup.nodes[price_text].txt)
                 digits == DigitsOf(raw)
             IN  IF digits = <<>> THEN NonValide("Prix illisible")
                 ELSE IF PrixTooLow(digits) THEN NonValide("prix < 10 000")
                 ELSE Ok(digits)


---------------------------------------------------------------------------
(* ville *)

\* len() of a token: the number of characters it stands for
TokLen(t) ==
    CASE t = FRANCE -> 6 [] t = AVENDRE -> 8 [] t = NBSP -> 1 [] t = EUR -> 1
      [] t = "http" -> 4 [] t = "Paris" -> 5 [] t = "Yvelines" -> 8
      [] t = "Versailles" -> 10 [] t = "IDF" -> 13
      [] OTHER -> 1

RECURSIVE TextLen(_)
\* len(txt)
TextLen(txt) == IF txt = <<>> THEN 0 ELSE TokLen(Head(txt)) + TextLen(Tail(txt))

\* loc_pattern.search(txt), loc_pattern = France,\s
HasLoc(txt) ==
    \E i \in 1..(Len(txt) - 2) :
        txt[i] = FRANCE /\ txt[i + 1] = "," /\ IsSpace(txt[i + 2])

\* "http" in txt or '"url"' in txt or "{" in txt or "}" in txt
LooksLikeJson(txt) == \E i \in 1..Len(txt) : txt[i] \in {"http", "url", "{", "}"}

\* txt.count(",")
CountCommas(txt) == Len(SelectToks(txt, {","}))

\* loc.rfind(", ") as an index from 1, 0 when there is none
RFindCommaSpace(loc) ==
    LET at == {i \in 1..(Len(loc) - 1) : loc[i] = "," /\ loc[i + 1] = " "}
    IN  IF at = {} THEN 0 ELSE CHOOSE i \in at : \A k \in at : k <= i

RECURSIVE VilleCandidates(_, _, _)
\* the loop of ville over the nodes from index i on
VilleCandidates(soup, i, acc) ==
    IF i > Len(soup.nodes) \/ Len(acc) >= MaxCandidates THEN acc
    ELSE LET node == soup.nodes[i]
             txt == Clean(node.txt)
         IN  IF \/ ~HasLoc(node.txt)
                \/ ~IsVisible(node)
                \/ LooksLikeJson(txt)
                \/ CountCommas(txt) < MinCommas
             THEN VilleCandidates(soup, i + 1, acc)
             ELSE VilleCandidates(soup, i + 1, Append(acc, txt))

\* min(candidates, key=len): the first of the shortest
Shortest(cands) ==
    LET i == CHOOSE i \in 1..Len(cands) :
                 /\ \A k \in 1..Len(cands) : TextLen(cands[i]) <= TextLen(cands[k])
                 /\ \A k \in 1..(i - 1) : TextLen(cands[k]) > TextLen(cands[i])
    IN  cands[i]

\* ville
ville(soup) ==
    LET m == Marker(soup)
        candidates == VilleCandidates(soup, m + 1, <<>>)
    IN  IF candidates = <<>> THEN NonValide("Localisation introuvable")
        ELSE LET loc == Shortest(candidates)
                 idx == RFindCommaSpace(loc)
             IN  IF idx = 0 \/ idx + 2 > Len(loc)
                 THEN NonValide("Format de localisation inattendu")
                 ELSE Ok(Strip(SubSeq(loc, idx + 2, Len(loc))))

---------------------------------------------------------------------------
(* caracteristiques *)

\* the whole document as a tag
Soup == [pat |-> 0, lvl |-> 0]

\* the keywords caracteristiques counts
Keywords == {"type", "surface", "nb. de pieces", "nb. de chambres",
             "nb. de salles de bains", "dep", "dpe"}

\* score of a tag whose text holds the keywords blob
Score(blob) == Cardinality(blob \cap Keywords)

\* the ancestor at level lvl of the first match of pattern pat; the last
\* ancestor of a chain is the document itself
TagAt(soup, pat, lvl) ==
    IF lvl = Len(soup.heads[pat][1]) THEN Soup ELSE [pat |-> pat, lvl |-> lvl]

\* number of ancestor levels caracteristiques looks at
LevelsWalked(chain) == IF Len(chain) < MaxLevels THEN Len(chain) ELSE MaxLevels

\* the level of the first ancestor of chain, among those walked, with a
\* score >= 3, or 0
FirstScoring(chain) ==
    LET at == {l \in 1..LevelsWalked(chain) : Score(chain[l]) >= ScoreMin}
    IN  IF at = {} THEN 0 ELSE CHOOSE l \in at : \A k \in at : l <= k

\* walking up from the last match of pattern pat
HeadOfLast(soup, pat) == soup.heads[pat][Len(soup.heads[pat])]

\* the match of pattern pat that caracteristiques walks up from: soup.find
\* gives the first one in document order
HeadOf(soup, pat) == soup.heads[pat][1]

\* caracteristiques
caracteristiques(soup) ==
    LET hit(pat) == IF soup.heads[pat] = <<>> THEN 0
                    ELSE FirstScoring(HeadOf(soup, pat))
    IN  IF hit(1) # 0 THEN TagAt(soup, 1, hit(1))
        ELSE IF hit(2) # 0 THEN TagAt(soup, 2, hit(2))
        ELSE Soup


---------------------------------------------------------------------------
(* _extract_value and the extractors built on it *)

\* the words each label_regex matches (re.IGNORECASE)
LabelToks(label) ==
    CASE label = "Type" -> {"Type", "type"}
      [] label = "Surface" -> {"Surface", "surface"}
      [] label = "NbPieces" -> {"Nb. de pieces", "Nombre de pieces"}
      [] label = "NbChambres" -> {"Nb. de chambres", "Nombre de chambres"}
      [] label = "NbSdb" -> {"Nb. de salles de bains", "Nb. de salle de bain"}
      [] label = "DPE" -> {"DEP", "DPE", "dpe", "Consommation d'energie"}

\* re.compile(label_regex).search(txt)
LabelSearch(label, txt) == \E i \in 1..Len(txt) : txt[i] \in LabelToks(label)

\* re.fullmatch(label_regex, txt)
LabelFullMatch(label, txt) == Len(txt) = 1 /\ txt[1] \in LabelToks(label)

\* root.find(string=re.compile(label_regex)): the index in soup.labels of the
\* first text node beneath root that matches, or 0
FindLabel(soup, root, label) ==
    LET at == {i \in 1..Len(soup.labels) :
                  /\ LabelSearch(label, soup.labels[i].lab)
                  /\ (root = Soup \/ root \in soup.labels[i].under)}
    IN  IF at = {} THEN 0 ELSE CHOOSE i \in at : \A k \in at : i <= k

\* "this step found nothing" of _extract_value
NoValue == [ok |-> FALSE, exc |-> "", why |-> "next step"]

\* the table-row step of _extract_value on the cleaned cell texts: a result
\* or NoValue
FromRow(label, texts) ==
    LET hits == {i \in 1..(Len(texts) - 1) : LabelFullMatch(label, texts[i])}
        full == {i \in 1..Len(texts) : texts[i] # <<>>}
    IN  IF hits # {}
        THEN Ok(texts[(CHOOSE i \in hits : \A k \in hits : i <= k) + 1])
        ELSE IF full # {}
        THEN Ok(texts[CHOOSE i \in full : \A k \in full : k <= i])
        ELSE NoValue

\* the sibling step of _extract_value on the cleaned texts of the children
\* that follow the label's tag: a result or NoValue
FromSiblings(label, texts) ==
    LET at == {i \in 1..Len(texts) :
                  texts[i] # <<>> /\ ~LabelFullMatch(label, texts[i])}
    IN  IF at = {} THEN NoValue
        ELSE Ok(texts[CHOOSE i \in at : \A k \in at : i <= k])

\* the last step of _extract_value on the text nodes from the label's tag on
\* (find_next starts with the label's own text)
FromNext(label, nodes) ==
    LET at == {i \in 1..Len(nodes) :
                  /\ IsVisible(nodes[i])
                  /\ Clean(nodes[i].txt) # <<>>
                  /\ ~LabelFullMatch(label, Clean(nodes[i].txt))}
    IN  IF at = {} THEN NonValide("Valeur introuvable")
        ELSE Ok(Clean(nodes[CHOOSE i \in at : \A k \in at : i <= k].txt))

\* [_clean(c.get_text(" ", strip=True)) for c in cells]
CleanAll(texts) == [i \in 1..Len(texts) |-> Clean(texts[i])]

\* _extract_value
extract_value(soup, root, label) ==
    LET i == FindLabel(soup, root, label)
    IN  IF i = 0 THEN NonValide("Champ introuvable")
        ELSE LET e == soup.labels[i]
                 inrow == IF e.intr THEN FromRow(label, CleanAll(e.cells)) ELSE NoValue
                 sib == FromSiblings(label, CleanAll(e.sibs))
             IN  IF inrow # NoValue THEN inrow
                 ELSE IF sib # NoValue THEN sib
                 ELSE FromNext(label, e.next)

\* _digits_or_dash
digits_or_dash(value) ==
    LET v == Clean(value)
    IN  IF v \in {<<"-">>, <<>>} THEN <<"-">>
        ELSE IF DigitsOf(v) # <<>> THEN DigitsOf(v) ELSE <<"-">>

\* a whitelist test that lets every type through
TypeAllowedAny(t) == TRUE

\* the whitelist test of type
TypeAllowed(t) == t \in {<<"Maison">>, <<"Appartement">>}

\* type
type(soup) ==
    LET r == extract_value(soup, caracteristiques(soup), "Type")
    IN  IF ~r.ok THEN r
        ELSE IF ~TypeAllowed(Clean(r.val)) THEN NonValide("Type non autorise")
        ELSE Ok(Clean(r.val))

\* a numeric field that lets the failure of _extract_value through
NumericFieldStrict(soup, label) ==
    LET r == extract_value(soup, caracteristiques(soup), label)
    IN  IF r.ok THEN Ok(digits_or_dash(r.val)) ELSE r

\* the body shared by surface, nbrpieces, nbrchambres and nbrsdb
NumericField(soup, label) ==
    LET r == extract_value(soup, caracteristiques(soup), label)
    IN  IF r.ok THEN Ok(digits_or_dash(r.val)) ELSE Ok(<<"-">>)

surface(soup) == NumericField(soup, "Surface")
nbrpieces(soup) == NumericField(soup, "NbPieces")
nbrchambres(soup) == NumericField(soup, "NbChambres")
nbrsdb(soup) == NumericField(soup, "NbSdb")

\* str.upper() of a letter a-g
Upper(c) ==
    CASE c = "a" -> "A" [] c = "b" -> "B" [] c = "c" -> "C" [] c = "d" -> "D"
      [] c = "e" -> "E" [] c = "f" -> "F" [] c = "g" -> "G" [] OTHER -> c

\* re.search(r"\b([A-G])\b", raw, re.IGNORECASE): the index of the letter, or 0
DpeLetter(raw) ==
    LET at == {i \in 1..Len(raw) :
                  /\ Upper(raw[i]) \in {"A", "B", "C", "D", "E", "F", "G"}
                  /\ (i = 1 \/ ~IsWordTok(raw[i - 1]))
                  /\ (i = Len(raw) \/ ~IsWordTok(raw[i + 1]))}
    IN  IF at = {} THEN 0 ELSE CHOOSE i \in at : \A k \in at : i <= k

\* dpe
dpe(soup) ==
    LET r == extract_value(soup, caracteristiques(soup), "DPE")
    IN  IF ~r.ok THEN Ok(<<"-">>)
        ELSE LET raw == Clean(r.val)
             IN  IF raw \in {<<"-">>, <<>>} THEN Ok(<<"-">>)
                 ELSE IF DpeLetter(raw) # 0 THEN Ok(<<Upper(raw[DpeLetter(raw)])>>)
                 ELSE Ok(raw)

---------------------------------------------------------------------------
(* informations_fields *)

\* the order of the list display of informations_fields
FieldOrder == <<"ville", "type", "surface", "nbrpieces", "nbrchambres",
                "nbrsdb", "dpe", "prix">>

\* the call of one extractor
Extract(name, soup) ==
    CASE name = "ville" -> ville(soup)
      [] name = "type" -> type(soup)
      [] name = "surface" -> surface(soup)
      [] name = "nbrpieces" -> nbrpieces(soup)
      [] name = "nbrchambres" -> nbrchambres(soup)
      [] name = "nbrsdb" -> nbrsdb(soup)
      [] name = "dpe" -> dpe(soup)
      [] name = "prix" -> prix(soup)

RECURSIVE EvalFields(_, _, _, _)
\* evaluation of the list display from element i on: the first extractor
\* that raises ends it.  ran is the extractors called so far
EvalFields(order, soup, i, acc) ==
    IF i > Len(order) THEN [ok |-> TRUE, val |-> acc.vals, ran |-> acc.ran]
    ELSE LET r == Extract(order[i], soup)
             ran == Append(acc.ran, order[i])
         IN  IF ~r.ok
             THEN [ok |-> FALSE, exc |-> r.exc, why |-> r.why,
                   by |-> order[i], ran |-> ran]
             ELSE EvalFields(order, soup, i + 1,
                             [vals |-> Append(acc.vals, r.val), ran |-> ran])

\* informations_fields
informations_fields(soup) ==
    EvalFields(FieldOrder, soup, 1, [vals |-> <<>>, ran |-> <<>>])


---------------------------------------------------------------------------
(* Documents the harnesses and the crawl draw from *)

Doc(nodes, labels, heads) == [nodes |-> nodes, labels |-> labels, heads |-> heads]

NoHeads == <<<<>>, <<>>>>

TextNode(txt, vis) == [txt |-> txt, vis |-> vis]

\* a text node holding "à vendre"
MarkerNode == TextNode(<<"Maison", " ", AVENDRE>>, TRUE)

\* all texts of at most n tokens of the set alphabet
TextsUpTo(alphabet, n) == UNION {[1..k -> alphabet] : k \in 0..n}

\* the alphabet of the generated text node of the prix harness
PrixAlphabet == {"0", "1", " ", EUR, "x"}

\* what precedes and what follows the generated node: nothing, a marker,
\* a second price
PrixBefore == {<<>>, <<MarkerNode>>}
PrixAfter == {<<>>, <<MarkerNode>>,
              <<TextNode(<<EUR, NBSP, "2", "0", NBSP, "0", "0", "0">>, TRUE)>>}

---------------------------------------------------------------------------
(* The state before any call: the locals of scrape_idf_sales_to_csv as     *)
(* lines 358-361 set them, no call of getsoup running                      *)

NoDoc == Doc(<<>>, <<>>, NoHeads)
NoListing == [links |-> <<>>]
\* page_url = None, and the empty href
NoUrl == [host |-> "", path |-> ""]

CrawlLocalsInit ==
    /\ seen_ads = {}
    /\ total_ads = 0 /\ valid_ads = 0 /\ skipped_ads = 0
    /\ sink = <<>> /\ flushed = 0
    /\ start_idx = 0 /\ page_url = NoUrl /\ pages_seen = 0
    /\ listing_soup = NoListing /\ ad_queue = <<>> /\ ad_url = NoUrl
    /\ row = NoValue
    /\ report = <<>> /\ raised = None
    /\ h_fetches = <<>> /\ h_pages = 0

GetsoupIdle ==
    /\ g_url = NoUrl /\ g_retries = DefaultRetries /\ g_i = 0
    /\ g_last_exc = None /\ g_ret = NoValue
    /\ h_gets = <<>> /\ h_sleeps = 0

crawl_vars == <<seen_ads, total_ads, valid_ads, skipped_ads, sink, flushed,
                start_idx, page_url, pages_seen, listing_soup, ad_queue,
                ad_url, row, report, raised, h_fetches, h_pages>>

getsoup_vars == <<g_url, g_retries, g_i, g_last_exc, g_ret, h_gets, h_sleeps>>

---------------------------------------------------------------------------
(* getsoup, one action per HTTP attempt.  pc names the caller: "main",     *)
(* "page" (line 384) or "ad" (line 395), with _getsoup while the call runs *)
(* and _back when it has returned or raised.                               *)

\* a url that is not a str
NotAStr == [host |-> "<not a str>", path |-> ""]

\* not isinstance(url, str) or not url.strip()
UrlRejected(url) ==
    \/ url = NotAStr
    \/ url.host \in {"", " "} /\ url.path \in {"", " "}

\* one attempt too many
AttemptsOneMore(retries) == retries + 2

\* range(retries + 1): the number of attempts
Attempts(retries) == retries + 1

\* what _SESSION.get, raise_for_status and BeautifulSoup can raise
Faults == {"ConnectionError", "HTTPError"}

Calling == {"main_getsoup", "page_getsoup", "ad_getsoup"}

Back(p) ==
    CASE p = "main_getsoup" -> "main_back"
      [] p = "page_getsoup" -> "page_back"
      [] p = "ad_getsoup" -> "ad_back"

\* the frame of a new call getsoup(url, retries=retries)
CallGetsoup(url, retries) ==
    /\ g_url' = url /\ g_retries' = retries /\ g_i' = 0
    /\ g_last_exc' = None /\ g_ret' = NoValue
    /\ h_gets' = <<>> /\ h_sleeps' = 0

\* the frame of getsoup is gone once the caller has its result
PopGetsoup ==
    /\ g_url' = NoUrl /\ g_retries' = DefaultRetries /\ g_i' = 0
    /\ g_last_exc' = None /\ g_ret' = NoValue
    /\ h_gets' = <<>> /\ h_sleeps' = 0

\* line 50-51
GetsoupRejects ==
    /\ pc \in Calling /\ UrlRejected(g_url)
    /\ g_ret' = Raise("ValueError", "URL vide ou invalide")
    /\ pc' = Back(pc) /\ h_last' = "getsoup_rejects"
    /\ UNCHANGED <<crawl_vars, g_url, g_retries, g_i, g_last_exc, h_gets,
                   h_sleeps, arg, ret>>

\* lines 55-58: an attempt that succeeds returns the parsed page
GetsoupAttemptOk(pages) ==
    /\ pc \in Calling /\ ~UrlRejected(g_url)
    /\ g_i < Attempts(g_retries)
    /\ \E soup \in pages : g_ret' = Ok(soup)
    /\ h_gets' = Append(h_gets, "ok")
    /\ pc' = Back(pc) /\ h_last' = "getsoup_ok"
    /\ UNCHANGED <<crawl_vars, g_url, g_retries, g_i, g_last_exc, h_sleeps,
                   arg, ret>>

\* lines 59-61: an attempt that fails is recorded and followed by a sleep
GetsoupAttemptFails ==
    /\ pc \in Calling /\ ~UrlRejected(g_url)
    /\ g_i < Attempts(g_retries)
    /\ \E e \in Faults : g_last_exc' = e /\ h_gets' = Append(h_gets, e)
    /\ h_sleeps' = h_sleeps + 1
    /\ g_i' = g_i + 1
    /\ h_last' = "getsoup_fails"
    /\ UNCHANGED <<crawl_vars, pc, g_url, g_retries, g_ret, arg, ret>>

\* line 63
GetsoupExhausted ==
    /\ pc \in Calling /\ ~UrlRejected(g_url)
    /\ g_i >= Attempts(g_retries)
    /\ g_ret' = Raise(g_last_exc, "raise last_exc")
    /\ pc' = Back(pc) /\ h_last' = "getsoup_exhausted"
    /\ UNCHANGED <<crawl_vars, g_url, g_retries, g_i, g_last_exc, h_gets,
                   h_sleeps, arg, ret>>

---------------------------------------------------------------------------
(* __main__ calling getsoup on one url (line 431), with any retries *)

Host == "https://ile-de-france.immo-entre-particuliers.com"

TestUrls ==
    {[host |-> Host, path |-> "/annonce-a/1"],
     [host |-> Host, path |-> ""],
     NoUrl, [host |-> " ", path |-> " "], NotAStr}

InitGetsoup ==
    /\ CrawlLocalsInit /\ GetsoupIdle
    /\ pc = "main" /\ h_last = "init"
    /\ \E u \in TestUrls, r \in 0..MaxRetries : arg = [url |-> u, retries |-> r]
    /\ ret = NoValue

MainCallsGetsoup ==
    /\ pc = "main"
    /\ CallGetsoup(arg.url, arg.retries)
    /\ pc' = "main_getsoup" /\ h_last' = "call_getsoup"
    /\ UNCHANGED <<crawl_vars, arg, ret>>

\* the pages the test url can serve
TestPages == {NoDoc, Doc(<<MarkerNode>>, <<>>, NoHeads)}

MainGetsoupOk == GetsoupAttemptOk(TestPages)

MainGotSoup ==
    /\ pc = "main_back"
    /\ ret' = g_ret
    /\ pc' = "returned" /\ h_last' = "getsoup"
    /\ UNCHANGED <<crawl_vars, getsoup_vars, arg>>

NextGetsoup ==
    \/ MainCallsGetsoup
    \/ GetsoupRejects
    \/ MainGetsoupOk
    \/ GetsoupAttemptFails
    \/ GetsoupExhausted
    \/ MainGotSoup

SpecGetsoup == InitGetsoup /\ [][NextGetsoup]_vars

\* the call getsoup(arg.url, retries=arg.retries) of __main__ has ended
GetsoupDone == pc = "returned" /\ h_last = "getsoup"

(* C7: getsoup makes at most retries + 1 HTTP attempts; it returns the      *)
(* document of the first successful attempt and makes no attempt after it;  *)
(* it sleeps once after each failed attempt; after retries + 1 failed       *)
(* attempts it raises the error of the last one; and an empty, blank or     *)
(* non-str url raises before any attempt.                                   *)
GetsoupBoundedRetries ==
    LET failed == {i \in 1..Len(h_gets) : h_gets[i] # "ok"}
        blank == arg.url \in {NoUrl, [host |-> " ", path |-> " "], NotAStr}
    IN  (h_last # "init") =>
        /\ Len(h_gets) <= arg.retries + 1
        /\ h_sleeps = Cardinality(failed)
        /\ \A i \in 1..Len(h_gets) : h_gets[i] = "ok" => i = Len(h_gets)
        /\ GetsoupDone =>
             /\ blank => ~ret.ok /\ ret.exc = "ValueError" /\ h_gets = <<>>
             /\ ~blank /\ ret.ok =>
                    /\ h_gets # <<>> /\ h_gets[Len(h_gets)] = "ok"
                    /\ ret.val \in TestPages
             /\ ~blank /\ ~ret.ok =>
                    /\ Len(h_gets) = arg.retries + 1
                    /\ Cardinality(failed) = arg.retries + 1
                    /\ ret.exc = h_gets[Len(h_gets)]

\* a call that failed retries + 1 times, retries > 0, with two different
\* errors, and raised
GetsoupWitness ==
    /\ GetsoupDone /\ ~ret.ok /\ arg.retries >= 2
    /\ Len(h_gets) = arg.retries + 1
    /\ h_gets[1] # h_gets[Len(h_gets)]
    /\ h_sleeps = arg.retries + 1

---------------------------------------------------------------------------
(* __main__ calling prix on one document (line 436) *)

InitPrix ==
    /\ CrawlLocalsInit /\ GetsoupIdle
    /\ pc = "main" /\ h_last = "init"
    /\ \E t \in TextsUpTo(PrixAlphabet, MaxTextLen), v \in BOOLEAN,
          pre \in PrixBefore, post \in PrixAfter :
           arg = Doc(pre \o <<TextNode(t, v)>> \o post, <<>>, NoHeads)
    /\ ret = NoValue

CallPrix ==
    /\ pc = "main"
    /\ ret' = prix(arg)
    /\ pc' = "returned"
    /\ h_last' = "prix"
    /\ UNCHANGED <<crawl_vars, getsoup_vars, arg>>

SpecPrix == InitPrix /\ [][CallPrix]_vars


(* C8: whenever prix found a price text, it raises NonValide if the digits  *)
(* of the amount euro_pattern matched are none or an integer below 10000,   *)
(* and otherwise returns exactly the digits of that matched amount; when    *)
(* no visible text matches (marker or not) it raises NonValide.             *)
PrixReturnsMatchedAmount ==
    (pc = "returned" /\ h_last = "prix") =>
        IF find_price_text(arg) = 0
        THEN ~ret.ok /\ ret.exc = "NonValide"
        ELSE LET m == DigitsOf(MatchedAmount(arg.nodes[find_price_text(arg)].txt))
             IN  IF m = <<>> \/ ToInt(m) < PrixMin
                 THEN ~ret.ok /\ ret.exc = "NonValide"
                 ELSE ret = Ok(m)


---------------------------------------------------------------------------
(* __main__ calling informations_fields on one document (line 444) *)

\* a header whose second ancestor is the characteristics block
BlockChain == <<{"type"}, {"type", "surface", "dpe"}, {"type", "surface", "dpe"}>>
Block == [pat |-> 1, lvl |-> 2]

\* <tr><td>label</td><td>value</td></tr>
RowEntry(lab, val, under) ==
    [lab |-> <<lab>>, under |-> under, intr |-> TRUE,
     cells |-> <<<<lab>>, val>>, sibs |-> <<val>>,
     next |-> <<TextNode(<<lab>>, TRUE), TextNode(val, TRUE)>>]

\* <dt>label</dt><dd>value</dd>
SiblingEntry(lab, val, under) ==
    [lab |-> <<lab>>, under |-> under, intr |-> FALSE,
     cells |-> <<>>, sibs |-> <<val>>,
     next |-> <<TextNode(<<lab>>, TRUE), TextNode(val, TRUE)>>]

\* a label that nothing follows
LoneEntry(lab, under) ==
    [lab |-> <<lab>>, under |-> under, intr |-> FALSE,
     cells |-> <<>>, sibs |-> <<>>, next |-> <<TextNode(<<lab>>, TRUE)>>]

HeadsOpts == {NoHeads, <<<<BlockChain>>, <<>>>>}

VilleOpts ==
    {<<TextNode(<<FRANCE, ",", " ", "IDF", ",", " ", "Yvelines", ",", NBSP,
                  "Versailles">>, TRUE)>>,
     <<TextNode(<<"a", ",", "b", ",", "c", ",", FRANCE, ",", " ">>, TRUE)>>,
     <<>>}

PrixOpts ==
    {<<TextNode(<<"2", "5", "0", NBSP, "0", "0", "0", " ", EUR>>, TRUE)>>,
     <<TextNode(<<"9", "0", "0", "0", " ", EUR>>, TRUE)>>,
     <<>>}

TypeOpts ==
    {<<RowEntry("Type", <<"Maison">>, {Block})>>,
     <<RowEntry("Type", <<" ", "Appartement", NBSP>>, {Block})>>,
     <<RowEntry("Type", <<"Terrain">>, {Block})>>,
     <<>>}

SurfaceOpts ==
    {<<RowEntry("Surface", <<"8", "5", " ", "m">>, {Block})>>,
     <<RowEntry("Surface", <<"-">>, {Block})>>,
     <<RowEntry("Surface", <<"x">>, {Block})>>,
     <<RowEntry("Surface", <<"8", "5">>, {})>>,
     <<LoneEntry("Surface", {Block})>>,
     <<>>}

PiecesOpts == {<<SiblingEntry("Nb. de pieces", <<"4">>, {Block})>>, <<>>}
ChambresOpts == {<<RowEntry("Nombre de chambres", <<"3", " ", "x">>, {Block})>>, <<>>}
SdbOpts == {<<RowEntry("Nb. de salles de bains", <<"x">>, {Block})>>, <<>>}

DpeOpts ==
    {<<RowEntry("DPE", <<"C">>, {Block})>>,
     <<RowEntry("DPE", <<"Classe", " ", "c">>, {Block})>>,
     <<RowEntry("DPE", <<"Non", " ", "renseigne">>, {Block})>>,
     <<RowEntry("DPE", <<"-">>, {Block})>>,
     <<>>}

InitFields ==
    /\ CrawlLocalsInit /\ GetsoupIdle
    /\ pc = "main" /\ h_last = "init"
    /\ \E h \in HeadsOpts, v \in VilleOpts, p \in PrixOpts, t \in TypeOpts,
          s \in SurfaceOpts, np \in PiecesOpts, nc \in ChambresOpts,
          nb \in SdbOpts, d \in DpeOpts :
           arg = Doc(<<MarkerNode>> \o v \o p, t \o s \o np \o nc \o nb \o d, h)
    /\ ret = NoValue

CallInformationsFields ==
    /\ pc = "main"
    /\ ret' = informations_fields(arg)
    /\ pc' = "returned"
    /\ h_last' = "informations_fields"
    /\ UNCHANGED <<crawl_vars, getsoup_vars, arg>>

SpecFields == InitFields /\ [][CallInformationsFields]_vars

\* informations_fields has returned or raised on arg
FieldsDone == pc = "returned" /\ h_last = "informations_fields"

\* the record-fatal extractors that fail on arg
FatalFailing == {n \in {"ville", "type", "prix"} : ~Extract(n, arg).ok}

\* the extractors ran in the order ville, type, surface, nbrpieces,
\* nbrchambres, nbrsdb, dpe, prix; the call fails exactly when a
\* record-fatal extractor fails, with the failure of the first of them in
\* that order, and runs no extractor after it
FieldsOrder ==
    LET order == <<"ville", "type", "surface", "nbrpieces", "nbrchambres",
                   "nbrsdb", "dpe", "prix">>
        first == CHOOSE i \in 1..8 :
                     /\ order[i] \in FatalFailing
                     /\ \A k \in 1..(i - 1) : order[k] \notin FatalFailing
    IN  /\ ret.ran = SubSeq(order, 1, Len(ret.ran))
        /\ ret.ok <=> FatalFailing = {}
        /\ ret.ok => Len(ret.val) = 8 /\ Len(ret.ran) = 8
        /\ ~ret.ok => /\ ret.by = order[first]
                      /\ Len(ret.ran) = first
                      /\ ret.exc = "NonValide"
                      /\ ret.why = Extract(order[first], arg).why

\* the value _extract_value finds for label in the characteristics block
RawValue(label) == extract_value(arg, caracteristiques(arg), label)

\* the value of label is missing, or holds no digit
NoNumber(label) == ~RawValue(label).ok \/ DigitsOf(RawValue(label).val) = <<>>

\* the four numeric optional fields of a returned row are "-" when their
\* value is missing or holds no digit
NumericDegrades ==
    ret.ok => /\ NoNumber("Surface") => ret.val[3] = <<"-">>
              /\ NoNumber("NbPieces") => ret.val[4] = <<"-">>
              /\ NoNumber("NbChambres") => ret.val[5] = <<"-">>
              /\ NoNumber("NbSdb") => ret.val[6] = <<"-">>

\* the DPE value is there and holds no letter A-G of its own
DpeUnparseable ==
    /\ RawValue("DPE").ok
    /\ Clean(RawValue("DPE").val) \notin {<<"-">>, <<>>}
    /\ DpeLetter(Clean(RawValue("DPE").val)) = 0

(* C6, as amended: informations_fields runs the extractors in the order     *)
(* ville, type, surface, nbrpieces, nbrchambres, nbrsdb, dpe, prix and      *)
(* fails with the first failure among ville, type and prix, running no      *)
(* extractor after it; surface, nbrpieces, nbrchambres and nbrsdb never     *)
(* fail and are "-" when missing or without a digit; dpe never fails, is    *)
(* "-" when missing, and is the normalised raw value, not "-", when the     *)
(* value holds no letter A-G.                                               *)
FieldsOrderAndDegrade ==
    FieldsDone =>
        /\ FieldsOrder
        /\ NumericDegrades
        /\ ret.ok => /\ ~RawValue("DPE").ok => ret.val[7] = <<"-">>
                     /\ DpeUnparseable => ret.val[7] = Clean(RawValue("DPE").val)

\* a document failing both ville and prix was reported as a ville failure,
\* and a row with a DPE value without a letter was returned
FieldsWitness ==
    /\ FieldsDone
    /\ \/ ~ret.ok /\ FatalFailing = {"ville", "prix"} /\ ret.by = "ville"
       \/ ret.ok /\ DpeUnparseable /\ NoNumber("Surface")

(* C6, as claimed: the same order and short circuit, and a missing or       *)
(* unparseable surface, nbrpieces, nbrchambres, nbrsdb or dpe yields "-".   *)
FieldsAllDegradeToDash ==
    FieldsDone =>
        /\ FieldsOrder
        /\ NumericDegrades
        /\ ret.ok => ((~RawValue("DPE").ok \/ DpeUnparseable) => ret.val[7] = <<"-">>)


---------------------------------------------------------------------------
(* __main__ calling caracteristiques on one document (through type,        *)
(* line 438)                                                               *)

\* the ancestors of a header match, from its parent (level 1) to the
\* document (level d): those from level q on hold three keywords, those
\* below hold two (the text of a tag is part of the text of its parent)
Chain(d, q) ==
    [l \in 1..d |-> IF l >= q THEN {"type", "surface", "dpe"}
                    ELSE {"type", "surface"}]

\* the chains a document can hold: the last ancestor of every chain is the
\* document itself, so all chains agree on whether it scores (top)
Chains(top) ==
    {c \in {Chain(d, q) : d \in 1..MaxDepth, q \in 1..(MaxDepth + 1)} :
        (Score(c[Len(c)]) >= ScoreMin) = top}

InitLocator ==
    /\ CrawlLocalsInit /\ GetsoupIdle
    /\ pc = "main" /\ h_last = "init"
    /\ \E top \in BOOLEAN :
       \E o1 \in {<<>>} \cup {<<c>> : c \in Chains(top)}
                 \cup {<<c, d>> : c \in Chains(top), d \in Chains(top)},
          o2 \in {<<>>} \cup {<<c>> : c \in Chains(top)} :
           arg = Doc(<<>>, <<>>, <<o1, o2>>)
    /\ ret = Soup

CallCaracteristiques ==
    /\ pc = "main"
    /\ ret' = caracteristiques(arg)
    /\ pc' = "returned"
    /\ h_last' = "caracteristiques"
    /\ UNCHANGED <<crawl_vars, getsoup_vars, arg>>

SpecLocator == InitLocator /\ [][CallCaracteristiques]_vars

LocatorDone == pc = "returned" /\ h_last = "caracteristiques"

\* the levels of chain, among the first seven, with a score of 3 or more
Scoring(chain) == {l \in 1..Len(chain) : l <= 7 /\ Score(chain[l]) >= 3}

\* the first match of pattern pat has a scoring ancestor in its first seven
FirstMatchHits(pat) == arg.heads[pat] # <<>> /\ Scoring(arg.heads[pat][1]) # {}

\* the lowest scoring level of the first match of pattern pat
LowestScoring(pat) ==
    CHOOSE l \in Scoring(arg.heads[pat][1]) :
        \A k \in Scoring(arg.heads[pat][1]) : l <= k

(* C9, as amended: caracteristiques looks only at the first match, in       *)
(* document order, of each header phrase; from it, it walks up at most 7    *)
(* ancestors and returns the first one whose score is >= 3, trying          *)
(* "Détails De La Propriété" before "Caractéristiques"; it returns the      *)
(* whole document when neither first match has such an ancestor or when     *)
(* that ancestor is the document itself, whatever later matches have.       *)
LocatorFirstMatchOnly ==
    LocatorDone =>
        LET pat == IF FirstMatchHits(1) THEN 1 ELSE 2
        IN  IF ~FirstMatchHits(1) /\ ~FirstMatchHits(2) THEN ret = Soup
            ELSE IF LowestScoring(pat) = Len(arg.heads[pat][1]) THEN ret = Soup
            ELSE ret = [pat |-> pat, lvl |-> LowestScoring(pat)]

\* the first match of "Détails De La Propriété" has no scoring ancestor in
\* its first seven, its second match has one below the document, and the
\* whole document was returned
LocatorWitness ==
    /\ LocatorDone
    /\ Len(arg.heads[1]) = 2 /\ arg.heads[2] = <<>>
    /\ Len(arg.heads[1][1]) > 7
    /\ Scoring(arg.heads[1][1]) = {}
    /\ \E l \in Scoring(arg.heads[1][2]) : l < Len(arg.heads[1][2])
    /\ ret = Soup

(* C9, as claimed: every match of either phrase is considered in turn       *)
(* (those of "Détails De La Propriété", then those of "Caractéristiques"):  *)
(* the first match that has, among its first seven ancestors, one with a    *)
(* score >= 3 gives the result, and the whole document is returned only     *)
(* when no match has one (or when that ancestor is the document itself).    *)
LocatorEveryMatch ==
    LocatorDone =>
        LET all == arg.heads[1] \o arg.heads[2]
            hits == {i \in 1..Len(all) : Scoring(all[i]) # {}}
            m == CHOOSE i \in hits : \A k \in hits : i <= k
            l == CHOOSE j \in Scoring(all[m]) : \A k \in Scoring(all[m]) : j <= k
        IN  IF hits = {} THEN ret = Soup
            ELSE IF l = Len(all[m]) THEN ret = Soup
            ELSE ret # Soup /\ ret.lvl = l


---------------------------------------------------------------------------
(* URL discovery: extract_ad_urls and find_next_page_url                   *)

\* START_URLS_IDF
START_URLS_IDF ==
    <<[host |-> Host, path |-> "/annonces/vente/maison/"],
      [host |-> Host, path |-> "/annonces/vente/appartement/"]>>

\* the paths of the modelled site that have the shape /annonce-<slug>/<id>
AdPaths == {"/annonce-a/1", "/annonce-b/2"}

\* _AD_URL_RE.search(href)
IsAdHref(href) == href.path \in AdPaths

\* urljoin(page_url, href), href empty, an absolute path or an absolute URL
urljoin(base, href) ==
    IF href = NoUrl THEN base
    ELSE IF href.host = "" THEN [host |-> base.host, path |-> href.path]
    ELSE href

\* every URL of the modelled site, in the order of sorted()
UrlsSorted ==
    <<[host |-> Host, path |-> "/annonce-a/1"],
      [host |-> Host, path |-> "/annonce-b/2"],
      [host |-> Host, path |-> "/annonces/vente/appartement/"],
      [host |-> Host, path |-> "/annonces/vente/maison/"],
      [host |-> Host, path |-> "/annonces/vente/maison/2"]>>

RECURSIVE SortedFrom(_, _)
\* the URLs of the set urls among UrlsSorted[i..], in that order
SortedFrom(urls, i) ==
    IF i > Len(UrlsSorted) THEN <<>>
    ELSE IF UrlsSorted[i] \in urls
         THEN <<UrlsSorted[i]>> \o SortedFrom(urls, i + 1)
         ELSE SortedFrom(urls, i + 1)

\* sorted(urls)
Sorted(urls) == SortedFrom(urls, 1)

\* extract_ad_urls
extract_ad_urls(listing, url) ==
    {urljoin(url, listing.links[i].href) :
        i \in {k \in 1..Len(listing.links) : IsAdHref(listing.links[k].href)}}

\* the first of the links at, or 0
FirstOf(at) == IF at = {} THEN 0 ELSE CHOOSE i \in at : \A k \in at : i <= k

\* find_next_page_url
find_next_page_url(listing, url) ==
    LET all == 1..Len(listing.links)
        rel == FirstOf({i \in all : listing.links[i].rel})
        txt == FirstOf({i \in all : listing.links[i].suivant})
        cls == FirstOf({i \in all : listing.links[i].cls})
    IN  IF rel # 0 /\ listing.links[rel].href # NoUrl
        THEN urljoin(url, listing.links[rel].href)
        ELSE IF txt # 0 THEN urljoin(url, listing.links[txt].href)
        ELSE IF cls # 0 THEN urljoin(url, listing.links[cls].href)
        ELSE NoUrl

\* <a href=...>, rel: rel has "next", suivant: the text has "suivant",
\* cls: class or id has "next"
Link(href, rel, suivant, cls) ==
    [href |-> href, rel |-> rel, suivant |-> suivant, cls |-> cls]

AdLink(host, path) == Link([host |-> host, path |-> path], FALSE, FALSE, FALSE)

\* the ad links of a listing page: none, one ad, an ad linked by a relative
\* and by an absolute href, and the same beside a second ad
AdLinkOpts ==
    {<<>>,
     <<AdLink("", "/annonce-b/2")>>,
     <<AdLink("", "/annonce-a/1"), AdLink(Host, "/annonce-a/1")>>,
     <<AdLink("", "/annonce-a/1"), AdLink("", "/annonce-b/2"),
       AdLink(Host, "/annonce-a/1")>>}

\* the navigation links of a listing page: none; rel="next"; rel="next"
\* with an empty href before a "suivant" link to the page itself; a link of
\* class "next" to the other section
NavLinkOpts ==
    {<<>>,
     <<Link([host |-> "", path |-> "/annonces/vente/maison/2"], TRUE, FALSE, FALSE)>>,
     <<Link(NoUrl, TRUE, FALSE, FALSE), Link(NoUrl, FALSE, TRUE, FALSE)>>,
     <<Link([host |-> Host, path |-> "/annonces/vente/appartement/"],
            FALSE, FALSE, TRUE)>>}

\* the listing pages the site can serve
ListingPages == {[links |-> a \o n] : a \in AdLinkOpts, n \in NavLinkOpts}

\* an ad page of the site
AdPage(v, p, typ, labels) ==
    Doc(<<MarkerNode>> \o v \o p,
        <<RowEntry("Type", <<typ>>, {Block})>> \o labels,
        <<<<BlockChain>>, <<>>>>)

GoodVille ==
    <<TextNode(<<FRANCE, ",", " ", "IDF", ",", " ", "Yvelines", ",", NBSP,
                 "Versailles">>, TRUE)>>
GoodPrix == <<TextNode(<<"2", "5", "0", NBSP, "0", "0", "0", " ", EUR>>, TRUE)>>
LowPrix == <<TextNode(<<"9", "0", "0", "0", " ", EUR>>, TRUE)>>

\* the ad pages the site can serve: a full one, one without optional
\* fields, and one for each way of failing ville, type and prix
AdPages ==
    {AdPage(GoodVille, GoodPrix, "Maison",
            <<RowEntry("Surface", <<"8", "5", " ", "m">>, {Block}),
              RowEntry("DPE", <<"Non", " ", "renseigne">>, {Block})>>),
     AdPage(GoodVille, GoodPrix, "Appartement", <<>>),
     AdPage(<<>>, GoodPrix, "Maison", <<>>),
     AdPage(GoodVille, GoodPrix, "Terrain", <<>>),
     AdPage(GoodVille, LowPrix, "Maison", <<>>),
     AdPage(<<>>, <<>>, "Appartement", <<>>)}

---------------------------------------------------------------------------
(* scrape_idf_sales_to_csv                                                 *)

\* a ceiling test that lets one page too many through
CeilingLate(n) == n > max_pages_safety + 1

\* line 378: the ceiling test, on the incremented page count
CeilingHit(n) == n > max_pages_safety

\* a VisitedSet test that never finds the url
NeverSeen(url, seen) == FALSE

\* line 389: the VisitedSet test
AlreadySeen(url, seen) == url \in seen

\* lines 408-410: the count of rows on disk after the progress flush
AfterProgress(total, rows, ondisk) ==
    IF total % print_every = 0 THEN Len(rows) ELSE ondisk

InitCrawl ==
    /\ CrawlLocalsInit /\ GetsoupIdle
    /\ pc = "section" /\ h_last = "init"
    /\ arg = NoDoc /\ ret = NoValue

\* line 370-372: the next start URL, with a page count of its own
NextSection ==
    /\ pc = "section" /\ start_idx < Len(START_URLS_IDF)
    /\ start_idx' = start_idx + 1
    /\ page_url' = START_URLS_IDF[start_idx + 1]
    /\ pages_seen' = 0 /\ h_pages' = 0
    /\ pc' = "page" /\ h_last' = "next_section"
    /\ UNCHANGED <<seen_ads, total_ads, valid_ads, skipped_ads, sink, flushed,
                   listing_soup, ad_queue, ad_url, row, report, raised, h_fetches,
                   getsoup_vars, arg, ret>>

\* lines 417-419: no start URL is left
EndRun ==
    /\ pc = "section" /\ start_idx >= Len(START_URLS_IDF)
    /\ flushed' = Len(sink)
    /\ report' = <<total_ads, valid_ads, skipped_ads>>
    /\ pc' = "done" /\ h_last' = "end_run"
    /\ UNCHANGED <<seen_ads, total_ads, valid_ads, skipped_ads, sink,
                   start_idx, page_url, pages_seen, listing_soup, ad_queue,
                   ad_url, row, raised, h_fetches, h_pages, getsoup_vars, arg, ret>>

\* line 376: page_url is None, the section is over
NoNextPage ==
    /\ pc = "page" /\ page_url = NoUrl
    /\ pc' = "section" /\ h_last' = "no_next_page"
    /\ UNCHANGED <<crawl_vars, getsoup_vars, arg, ret>>

\* lines 377-380: the ceiling is hit, the section is over
PageCeiling ==
    /\ pc = "page" /\ page_url # NoUrl
    /\ CeilingHit(pages_seen + 1)
    /\ pages_seen' = pages_seen + 1
    /\ pc' = "section" /\ h_last' = "page_ceiling"
    /\ UNCHANGED <<seen_ads, total_ads, valid_ads, skipped_ads, sink, flushed,
                   start_idx, page_url, listing_soup, ad_queue, ad_url, row, report,
                   raised, h_fetches, h_pages, getsoup_vars, arg, ret>>

\* lines 377-384: the listing page is fetched
PageFetch ==
    /\ pc = "page" /\ page_url # NoUrl
    /\ ~CeilingHit(pages_seen + 1)
    /\ pages_seen' = pages_seen + 1
    /\ CallGetsoup(page_url, DefaultRetries)
    /\ h_pages' = h_pages + 1
    /\ pc' = "page_getsoup" /\ h_last' = "page_fetch"
    /\ UNCHANGED <<seen_ads, total_ads, valid_ads, skipped_ads, sink, flushed,
                   start_idx, page_url, listing_soup, ad_queue, ad_url, row, report,
                   raised, h_fetches, arg, ret>>

PageGetsoupOk == pc = "page_getsoup" /\ GetsoupAttemptOk(ListingPages)

\* lines 384-388: getsoup returned the listing page
PageFetched ==
    /\ pc = "page_back" /\ g_ret.ok
    /\ listing_soup' = g_ret.val
    /\ ad_queue' = Sorted(extract_ad_urls(g_ret.val, page_url))
    /\ pc' = "ads" /\ h_last' = "page_fetched"
    /\ PopGetsoup
    /\ UNCHANGED <<seen_ads, total_ads, valid_ads, skipped_ads, sink, flushed,
                   start_idx, page_url, pages_seen, ad_url, row, report, raised,
                   h_fetches, h_pages, arg, ret>>

\* a page fault that only ends the section
PageFaultEndsSection == "section"

\* what a fault of getsoup(page_url) does to the program (line 384 is in no
\* try): "aborted", the exception leaves scrape_idf_sales_to_csv
AfterPageFault == "aborted"

\* line 384 raised: the with block (line 363) closes the file
PageFetchRaised ==
    /\ pc = "page_back" /\ ~g_ret.ok
    /\ pc' = AfterPageFault
    /\ raised' = IF AfterPageFault = "aborted" THEN g_ret.exc ELSE raised
    /\ flushed' = IF AfterPageFault = "aborted" THEN Len(sink) ELSE flushed
    /\ h_last' = "page_fault"
    /\ PopGetsoup
    /\ UNCHANGED <<seen_ads, total_ads, valid_ads, skipped_ads, sink,
                   start_idx, page_url, pages_seen, listing_soup, ad_queue,
                   ad_url, row, report, h_fetches, h_pages, arg, ret>>

\* lines 388, 414: no ad is left on the page, the cursor moves on
AdsDone ==
    /\ pc = "ads" /\ ad_queue = <<>>
    /\ page_url' = find_next_page_url(listing_soup, page_url)
    /\ pc' = "page" /\ h_last' = "ads_done"
    /\ UNCHANGED <<seen_ads, total_ads, valid_ads, skipped_ads, sink, flushed,
                   start_idx, pages_seen, listing_soup, ad_queue, ad_url, row,
                   report, raised, h_fetches, h_pages, getsoup_vars, arg, ret>>

\* lines 389-390
AdSkipSeen ==
    /\ pc = "ads" /\ ad_queue # <<>>
    /\ AlreadySeen(Head(ad_queue), seen_ads)
    /\ ad_queue' = Tail(ad_queue)
    /\ h_last' = "ad_seen"
    /\ UNCHANGED <<pc, seen_ads, total_ads, valid_ads, skipped_ads, sink,
                   flushed, start_idx, page_url, pages_seen, listing_soup,
                   ad_url, row, report, raised, h_fetches, h_pages, getsoup_vars,
                   arg, ret>>

\* lines 391-395
AdFetch ==
    /\ pc = "ads" /\ ad_queue # <<>>
    /\ ~AlreadySeen(Head(ad_queue), seen_ads)
    /\ seen_ads' = seen_ads \cup {Head(ad_queue)}
    /\ total_ads' = total_ads + 1
    /\ ad_url' = Head(ad_queue)
    /\ ad_queue' = Tail(ad_queue)
    /\ CallGetsoup(Head(ad_queue), DefaultRetries)
    /\ h_fetches' = Append(h_fetches, Head(ad_queue))
    /\ pc' = "ad_getsoup" /\ h_last' = "ad_fetch"
    /\ UNCHANGED <<valid_ads, skipped_ads, sink, flushed, start_idx, page_url,
                   pages_seen, listing_soup, row, report, raised, h_pages,
                   arg, ret>>

AdGetsoupOk == pc = "ad_getsoup" /\ GetsoupAttemptOk(AdPages)

\* a skipped count that stays as it is
CountSkippedNot(n) == n

\* the skipped count after an ad that raised
CountSkipped(n) == n + 1

\* an ad fault that leaves scrape_idf_sales_to_csv
AdFaultAborts == "aborted"

\* what an exception raised while an ad is processed does to the program
\* (lines 403-406 catch it): "ads", the loop goes on
AfterAdFault == "ads"

\* the locals of the loop that an ad leaves alone whatever its outcome
ad_frame == <<seen_ads, total_ads, start_idx, page_url, pages_seen,
              listing_soup, ad_queue, ad_url, report, h_fetches, h_pages,
              arg, ret>>

\* line 396: row = informations_fields(ad_soup), or the exception it raised
AdExtract ==
    /\ pc = "ad_back" /\ g_ret.ok
    /\ row' = informations_fields(g_ret.val)
    /\ pc' = "ad_row" /\ h_last' = "ad_extract"
    /\ PopGetsoup
    /\ UNCHANGED <<valid_ads, skipped_ads, sink, flushed, raised>>
    /\ UNCHANGED ad_frame

\* lines 397-398 and 408-410: the row is written
AdValid ==
    /\ pc = "ad_row" /\ row.ok
    /\ sink' = Append(sink, row.val)
    /\ valid_ads' = valid_ads + 1
    /\ flushed' = AfterProgress(total_ads, Append(sink, row.val), flushed)
    /\ row' = NoValue
    /\ pc' = "ads" /\ h_last' = "ad_valid"
    /\ UNCHANGED <<ad_frame, skipped_ads, raised, getsoup_vars>>

\* lines 403-404 and 408-410: informations_fields raised NonValide
AdNonValide ==
    /\ pc = "ad_row" /\ ~row.ok
    /\ skipped_ads' = CountSkipped(skipped_ads)
    /\ flushed' = AfterProgress(total_ads, sink, flushed)
    /\ row' = NoValue
    /\ pc' = "ads" /\ h_last' = "ad_nonvalide"
    /\ UNCHANGED <<ad_frame, valid_ads, sink, raised, getsoup_vars>>

\* lines 405-406 and 408-410: an exception that is not NonValide, raised by
\* getsoup(ad_url) (exc = its error) or by writer.writerow (exc = OSError)
AdFaultHandled(exc, what) ==
    /\ skipped_ads' = CountSkipped(skipped_ads)
    /\ pc' = AfterAdFault
    /\ raised' = IF AfterAdFault = "aborted" THEN exc ELSE raised
    /\ flushed' = IF AfterAdFault = "aborted" THEN Len(sink)
                  ELSE AfterProgress(total_ads, sink, flushed)
    /\ row' = NoValue
    /\ h_last' = what
    /\ UNCHANGED <<ad_frame, valid_ads, sink>>

AdFetchFault ==
    /\ pc = "ad_back" /\ ~g_ret.ok
    /\ AdFaultHandled(g_ret.exc, "ad_fetch_fault")
    /\ PopGetsoup

AdWriteFault ==
    /\ pc = "ad_row" /\ row.ok
    /\ AdFaultHandled("OSError", "ad_write_fault")
    /\ UNCHANGED getsoup_vars

\* the steps of scrape_idf_sales_to_csv but line 396.  Every url the
\* function hands to getsoup is a start URL or the result of urljoin on
\* one, never blank: line 51 cannot be reached from here
CrawlSteps ==
    \/ NextSection
    \/ EndRun
    \/ NoNextPage
    \/ PageCeiling
    \/ PageFetch
    \/ PageGetsoupOk
    \/ PageFetched
    \/ PageFetchRaised
    \/ AdsDone
    \/ AdSkipSeen
    \/ AdFetch
    \/ AdGetsoupOk
    \/ AdValid
    \/ AdNonValide
    \/ AdFetchFault
    \/ AdWriteFault
    \/ GetsoupAttemptFails
    \/ GetsoupExhausted

NextCrawl == CrawlSteps \/ AdExtract

SpecCrawl == InitCrawl /\ [][NextCrawl]_vars

\* line 396 is left: the step AdExtract, seen from the program counter
AdExtractReturns == pc = "ad_back" /\ g_ret.ok /\ pc' = "ad_row"

\* the interpreter always runs the next statement of the one thread
FairSpecCrawl ==
    /\ InitCrawl /\ [][NextCrawl]_vars
    /\ WF_vars(CrawlSteps) /\ WF_pc(AdExtractReturns)

---------------------------------------------------------------------------
(* Properties of scrape_idf_sales_to_csv                                   *)

\* s is a non-empty string of digits
DigitOnly(s) == s # <<>> /\ \A i \in 1..Len(s) : s[i] \in Digits

\* r is a complete record
CompleteRecord(r) ==
    /\ Len(r) = 8
    /\ r[1] # <<>>
    /\ r[2] \in {<<"Maison">>, <<"Appartement">>}
    /\ \A k \in 3..6 : DigitOnly(r[k]) \/ r[k] = <<"-">>
    /\ r[7] # <<>>
    /\ DigitOnly(r[8]) /\ ToInt(r[8]) >= 10000

\* the processing of an ad is between its fetch and its outcome
InAd == pc \in {"ad_getsoup", "ad_back", "ad_row"}

(* C1: every data row of the sink has exactly the 8 fields Ville, Type,     *)
(* Surface, NbrPieces, NbrChambres, NbrSdb, DPE, Prix, with Type "Maison"   *)
(* or "Appartement", Prix a string of digits worth at least 10000, and the  *)
(* four numeric fields strings of digits or "-"; a row is appended only     *)
(* for an ad whose ville, type and prix all succeed, and an ad for which    *)
(* one of them fails leaves the sink as it was.                             *)
RowsAreCompleteRecords ==
    /\ [](\A i \in 1..Len(sink) : CompleteRecord(sink[i]))
    /\ [](pc = "ad_row" /\ ~row.ok =>
              row.exc = "NonValide" /\ row.by \in {"ville", "type", "prix"})
    /\ [][pc = "ad_row" /\ ~row.ok => sink' = sink]_vars
    /\ [][sink' # sink =>
              /\ pc = "ad_row" /\ row.ok
              /\ sink' = Append(sink, row.val)]_vars

\* a row with a surface and "-" fields is in the sink, and the ad after it,
\* for which informations_fields raised NonValide, has left the sink alone
RowsWitness ==
    /\ h_last = "ad_nonvalide" /\ skipped_ads = 1
    /\ Len(sink) = 1
    /\ sink[1][3] = <<"8", "5">> /\ sink[1][4] = <<"-">>
    /\ sink[1][8] = <<"2", "5", "0", "0", "0", "0">>

(* C2: within one run no ad URL is handed to getsoup twice, whatever the    *)
(* pages and sections that link to it and whatever the outcome of its       *)
(* first processing; seen_ads is never reset and holds an ad URL from       *)
(* before its fetch on.                                                     *)
AdFetchedAtMostOnce ==
    /\ [](\A i, k \in 1..Len(h_fetches) :
              h_fetches[i] = h_fetches[k] => i = k)
    /\ [](\A i \in 1..Len(h_fetches) : h_fetches[i] \in seen_ads)
    /\ [](pc = "ad_getsoup" => g_url \in seen_ads)
    /\ [][seen_ads \subseteq seen_ads']_vars

\* in the second section, an ad that the first section fetched, and that
\* was skipped there, is linked again and is not fetched
DedupWitness ==
    /\ h_last = "ad_seen" /\ start_idx = 2
    /\ skipped_ads >= 1 /\ valid_ads = 0
    /\ Len(h_fetches) = 1

(* C3: an ad whose processing raises, be it NonValide, the error of its     *)
(* fetch or another exception, is counted as skipped and writes no row;     *)
(* the loop goes on with the rest of the page, which the fault leaves as    *)
(* it was, and no exception of an ad ever leaves the crawl.                 *)
AdFaultIsolated ==
    /\ [][h_last' \in {"ad_nonvalide", "ad_fetch_fault", "ad_write_fault"}
          /\ InAd =>
              /\ skipped_ads' = skipped_ads + 1
              /\ valid_ads' = valid_ads
              /\ sink' = sink
              /\ pc' = "ads"
              /\ raised' = None
              /\ ad_queue' = ad_queue /\ page_url' = page_url
              /\ listing_soup' = listing_soup]_vars
    /\ [][(pc = "ad_back" /\ ~g_ret.ok) \/ (pc = "ad_row" /\ ~row.ok) =>
              h_last' \in {"ad_nonvalide", "ad_fetch_fault"}]_vars
    /\ [](pc = "aborted" => h_last = "page_fault")

\* an ad was skipped, and the ad after it on the page has just been written
IsolationWitness ==
    /\ h_last = "ad_valid" /\ Len(h_fetches) = 2
    /\ skipped_ads = 1 /\ valid_ads = 1
    /\ pages_seen = 1 /\ start_idx = 1

(* C4, as amended: when the fetch of a listing page fails, its error        *)
(* leaves scrape_idf_sales_to_csv: the run stops there, the remaining       *)
(* start URLs are not crawled and no final report is made; the rows         *)
(* written so far are in the file, which the with block closes.             *)
PageFaultAbortsRun ==
    /\ [][pc = "page_back" /\ ~g_ret.ok =>
              /\ pc' = "aborted"
              /\ raised' = g_ret.exc
              /\ flushed' = Len(sink) /\ sink' = sink
              /\ start_idx' = start_idx
              /\ report' = <<>>]_vars
    /\ [][pc # "aborted"]_vars
    /\ [](pc = "aborted" => raised \in Faults /\ report = <<>>)

\* the fetch of a page of the first section failed after retries + 1
\* attempts: the run is over with a row in the file and no report, the
\* second start URL not crawled
PageFaultWitness ==
    /\ pc = "aborted" /\ start_idx = 1
    /\ raised \in Faults /\ report = <<>>
    /\ Len(sink) = 1 /\ flushed = 1

(* C4, as claimed: after the fault of a listing page fetch the controller   *)
(* still processes the remaining start URLs and reaches the end of the      *)
(* run, with its final flush and report.                                    *)
PageFaultEndsSectionOnly ==
    (h_last = "page_fault") ~> (pc = "done" /\ report # <<>>)

(* C5: at most max_pages_safety listing pages are fetched per start URL;    *)
(* the page count restarts at zero for every start URL; a section ends      *)
(* exactly when the next page is absent or the ceiling is hit; hitting the  *)
(* ceiling is no error and the next start URL is still crawled; and the     *)
(* run terminates, even when the next-page links form a cycle.              *)
CursorReachesTerminal ==
    /\ [](h_pages <= max_pages_safety)
    /\ [][h_last' = "next_section" => pages_seen' = 0]_vars
    /\ [][pc = "page" =>
              ((pc' = "section") <=>
               (page_url = NoUrl \/ pages_seen + 1 > max_pages_safety))]_vars
    /\ [][h_last' = "page_ceiling" =>
              /\ start_idx' = start_idx
              /\ raised' = None /\ report' = <<>>]_vars
    /\ (h_last = "page_ceiling" /\ start_idx = 1) ~>
           (h_last = "next_section" /\ start_idx = 2 /\ pages_seen = 0)
    /\ <>(pc \in {"done", "aborted"})

\* the pages of the second section link to themselves: the ceiling ended
\* the section after max_pages_safety fetches of the same page
CeilingWitness ==
    /\ h_last = "page_ceiling" /\ start_idx = 2
    /\ page_url = START_URLS_IDF[2]
    /\ h_pages = max_pages_safety

(* C10: between two ads and at the end of the run, total_ads = valid_ads +  *)
(* skipped_ads = the number of URLs in seen_ads, and valid_ads is the       *)
(* number of rows written; each newly seen ad adds one to exactly one of    *)
(* valid_ads and skipped_ads.                                               *)
CountersAgree ==
    /\ [](~InAd =>
              /\ total_ads = valid_ads + skipped_ads
              /\ total_ads = Cardinality(seen_ads)
              /\ valid_ads = Len(sink))
    /\ [](InAd => total_ads = valid_ads + skipped_ads + 1)
    /\ [][InAd /\ pc' = "ads" =>
              \/ valid_ads' = valid_ads + 1 /\ skipped_ads' = skipped_ads
              \/ valid_ads' = valid_ads /\ skipped_ads' = skipped_ads + 1]_vars
    /\ [][~(InAd /\ pc' = "ads") =>
              valid_ads' = valid_ads /\ skipped_ads' = skipped_ads]_vars

\* the end of a run that wrote one ad and skipped one
CountersWitness ==
    /\ pc = "done" /\ report = <<2, 1, 1>>
    /\ valid_ads = 1 /\ skipped_ads = 1

=============================================================================
